---- MODULE Spec2Model ----
(***************************************************************************)
(* Document chatbot: the DocumentChatbot class (src/src/DocumentChatbot.py)*)
(* and the Streamlit script that hosts it (src/app.py).                    *)
(*                                                                         *)
(* Text is a sequence of one-character strings, so that lower-casing,      *)
(* substring search and the e-mail pattern are computed, not assumed.      *)
(***************************************************************************)
EXTENDS Integers, Sequences, FiniteSets, TLC

\* ------------------------------------------------------------------ text

Lowercase == <<"a","b","c","d","e","f","g","h","i","j","k","l","m","n","o","p","q","r","s","t","u","v","w","x","y","z">>
Uppercase == <<"A","B","C","D","E","F","G","H","I","J","K","L","M","N","O","P","Q","R","S","T","U","V","W","X","Y","Z">>
Digits == <<"0","1","2","3","4","5","6","7","8","9">>

Range(f) == {f[i] : i \in DOMAIN f}

\* str.lower(): every upper-case letter is replaced by its lower-case letter.
lower_CaseSensitive(s) == s
LowerOf ==
    [c \in Range(Uppercase) |-> Lowercase[CHOOSE k \in DOMAIN Uppercase : Uppercase[k] = c]]
lower(s) == [i \in 1..Len(s) |-> IF s[i] \in DOMAIN LowerOf THEN LowerOf[s[i]] ELSE s[i]]

\* Python's `keyword in text` on strings: keyword occurs as a contiguous run.
Contains(text, keyword) ==
    \E i \in 1..(Len(text) - Len(keyword) + 1) :
        SubSeq(text, i, i + Len(keyword) - 1) = keyword

\* The trigger list of process_query.
keywords ==
    << <<"c","a","l","l"," ","m","e">>,
       <<"c","o","n","t","a","c","t"," ","m","e">>,
       <<"s","c","h","e","d","u","l","e">>,
       <<"a","p","p","o","i","n","t","m","e","n","t">> >>

\* any(keyword in query.lower() for keyword in [...])
is_scheduling(query) ==
    LET text == lower(query)
    IN  \E k \in DOMAIN keywords : Contains(text, keywords[k])

\* ------------------------------------------------------------ validators

\* \w of the pattern (ASCII part): letters, digits, underscore.
IsWordChar(c) == c \in Range(Lowercase) \cup Range(Uppercase) \cup Range(Digits) \cup {"_"}
\* [\w\.-]
IsAddrChar(c) == IsWordChar(c) \/ c \in {".", "-"}

\* re.match(r'^[\w\.-]+@[\w\.-]+\.\w+$', email) is not None
validate_email(email) ==
    \E at \in 1..Len(email) : \E dot \in 1..Len(email) :
        /\ email[at] = "@"
        /\ email[dot] = "."
        /\ 1 < at
        /\ at + 1 < dot
        /\ dot < Len(email)
        /\ \A i \in 1..(at - 1) : IsAddrChar(email[i])
        /\ \A i \in (at + 1)..(dot - 1) : IsAddrChar(email[i])
        /\ \A i \in (dot + 1)..Len(email) : IsWordChar(email[i])

\* phonenumbers.parse(phone, "NP"): the national significant number, or <<>>
\* when the text is not a phone number at all (NumberParseException).  A
\* leading "+977" is the country code of the default region.
CountryCode == <<"+","9","7","7">>
phonenumbers_parse(phone) ==
    LET national == IF Len(phone) > 4 /\ SubSeq(phone, 1, 4) = CountryCode
                    THEN SubSeq(phone, 5, Len(phone)) ELSE phone
    IN  IF Len(national) >= 3 /\ \A i \in 1..Len(national) : national[i] \in Range(Digits)
        THEN national ELSE <<>>

\* phonenumbers.is_valid_number for region NP, mobile plan: 97/98 + 8 digits.
is_valid_number(national) ==
    /\ Len(national) = 10
    /\ national[1] = "9"
    /\ national[2] \in {"7", "8"}

\* validate_phone: False when parsing raises, else the library's verdict.
validate_phone_Any(phone) == TRUE
validate_phone(phone) ==
    LET parsed == phonenumbers_parse(phone)
    IN  IF parsed = <<>> THEN FALSE ELSE is_valid_number(parsed)

\* A date string, already split into tokens: a month name, a number or any
\* other word.  [kind |-> "month"|"num"|"word", n |-> value or 0].
Month(m) == [kind |-> "month", n |-> m]
Num(n) == [kind |-> "num", n |-> n]
Word == [kind |-> "word", n |-> 0]

\* datetime.now() when no field of the date is given (parser default).
Today == [year |-> 2026, month |-> 11, day |-> 3]

\* dateutil parser.parse(date_string, fuzzy=True): unknown words are skipped;
\* a month name gives the month, a number above 31 the year, another number
\* the day; missing fields come from today.  No date token: ParserError,
\* modelled as the record with year 0.
NoDate == [year |-> 0, month |-> 0, day |-> 0]
parser_parse(date_string) ==
    LET months == {i \in DOMAIN date_string : date_string[i].kind = "month"}
        years == {i \in DOMAIN date_string :
                    date_string[i].kind = "num" /\ date_string[i].n > 31}
        days == {i \in DOMAIN date_string :
                    date_string[i].kind = "num" /\ date_string[i].n \in 1..31}
        First(S) == CHOOSE i \in S : \A j \in S : i <= j
    IN  IF months \cup years \cup days = {} THEN NoDate
        ELSE [year |-> IF years = {} THEN Today.year ELSE date_string[First(years)].n,
              month |-> IF months = {} THEN Today.month ELSE date_string[First(months)].n,
              day |-> IF days = {} THEN Today.day ELSE date_string[First(days)].n]

\* Decimal digits of n, zero-padded to width w.
RECURSIVE Pad(_, _)
Pad(n, w) == IF w = 0 THEN <<>> ELSE Append(Pad(n \div 10, w - 1), Digits[(n % 10) + 1])

\* strftime("%Y-%m-%d")
strftime(d) == Pad(d.year, 4) \o <<"-">> \o Pad(d.month, 2) \o <<"-">> \o Pad(d.day, 2)

\* parse_date: the formatted date, or <<>> for None (parsing raised).
parse_date(date_string) ==
    LET parsed_date == parser_parse(date_string)
    IN  IF parsed_date = NoDate THEN <<>> ELSE strftime(parsed_date)

\* -------------------------------------------------------------- inputs

\* Bounds of the exploration.
MaxCalls == 3
MaxPrompts == 2
MaxLoads == 2

QDocument == <<"w","h","a","t"," ","d","o","e","s"," ","s","e","c","t","i","o","n"," ","2"," ","s","a","y">>
QSchedule == <<"p","l","e","a","s","e"," ","s","c","h","e","d","u","l","e"," ","a"," ","c","a","l","l"," ","f","o","r"," ","t","o","m","o","r","r","o","w">>
QCallMe == <<"C","a","l","l"," ","M","e"," ","b","a","c","k">>
QNearMiss == <<"c","a","l","l","m","e">>
Queries == {QDocument, QSchedule, QCallMe, QNearMiss}
\* The prompts typed into the app's chat input.
Prompts == {QDocument, QCallMe}

\* is_scheduling of every query of the exploration, computed once.
Routed == [q \in Queries |-> is_scheduling(q)]

\* What the retrieval chain does with a question: an answer, or an
\* exception (retriever or language model failed).
Answers == {"an answer"}
ChainRaises == "raises"
ChainOutcomes == Answers \cup {ChainRaises}

Names == {<<"R","a","m">>, <<>>}
EmailSpecValid == <<"a",".","b","-","c","@","s","u","b",".","d","o","m","a","i","n",".","c","o","m">>
EmailSpecInvalid == <<"n","o","t","-","a","n","-","e","m","a","i","l">>
EmailNoTld == <<"r","a","m","@","n","p">>
EmailInputs == {EmailSpecValid, EmailSpecInvalid, EmailNoTld}
PhoneMobile == <<"+","9","7","7","9","8","4","1","2","3","4","5","6","7">>
PhoneShort == <<"1","2","3","4","5">>
PhoneWords == <<"a","b","c">>
PhoneInputs == {PhoneMobile, PhoneShort, PhoneWords}
DateMarch == <<Word, Month(3), Num(3), Num(2025)>>
DateBlah == <<Word>>
DateInputs == {DateMarch, DateBlah}

\* Uploadable PDFs and the chunks the splitter makes of each; scan.pdf has no
\* extractable text.  missing.pdf is a path that does not exist.
Files == {"a.pdf", "b.pdf", "scan.pdf"}
Paths == Files \cup {"missing.pdf"}
ChunksOf(file) ==
    IF file \in {"a.pdf", "b.pdf"}
    THEN {[doc |-> file, n |-> 1], [doc |-> file, n |-> 2]}
    ELSE {}

\* Where building the index and the chain can fail inside load_document.
LoadFaults == {"none", "ingest", "chain"}

\* What can happen around one upload: <<embeddings_ok, fault, survives>>.
\* embeddings_ok: DocumentChatbot() could build its embeddings; survives: a
\* SystemExit ends only the script run, not the process.
UploadEnvs ==
    {<<FALSE, "none", s>> : s \in BOOLEAN}
        \cup {<<TRUE, f, s>> : f \in LoadFaults, s \in BOOLEAN}

\* ---------------------------------------------------------------- state

VARIABLES
    host,               \* "app": run by the Streamlit script; "api": the class alone
    process,            \* "running" | "exited"
    chatbot,            \* the DocumentChatbot object (st.session_state.chatbot)
    DB,                 \* persisted Chroma directories: directory -> chunks
    clock,              \* datetime.now()
    intake,             \* position of collect_user_info
    name, email, phone, \* locals of collect_user_info
    lastInput,          \* what input() last read
    uploaded_file,      \* the file_uploader widget
    document_loaded, messages, current_file,   \* st.session_state
    response,           \* what the last process_query call returned
    lastChain,          \* the most recent invocation of the retrieval chain
    calls,              \* process_query calls begun
    lastCall,           \* the last process_query call: its query and its branch
    lastLoad,           \* the most recent load_document call
    reported            \* st.success / st.error shown for the last upload

vars == <<host, process, chatbot, DB, clock, intake, name, email, phone, lastInput,
          uploaded_file, document_loaded, messages, current_file,
          response, lastChain, calls, lastCall, lastLoad, reported>>

None == "None"
EmptyDict == [k \in {} |-> <<>>]
Collecting == {"CollectName", "CollectEmail", "CollectPhone", "CollectDate"}

\* Attributes vectorstore and qa_chain hold the directory of their index; 0
\* stands for an attribute that was never assigned.
NoChatbot ==
    [made |-> FALSE, conversation_history |-> <<>>, user_info |-> EmptyDict,
     vectorstore |-> 0, qa_chain |-> 0]

\* DocumentChatbot.__init__
DocumentChatbot ==
    [made |-> TRUE, conversation_history |-> <<>>, user_info |-> EmptyDict,
     vectorstore |-> 0, qa_chain |-> 0]

\* ------------------------------------------------------- load_document

\* persist_directory = f"DB/chroma_{datetime.now()}"
persist_directory_Fixed(now) == 1 + (now - now)
persist_directory(now) == now

\* load_document: every exception ends in sys.exit(1), which raises SystemExit.
load_document(bot, pdf_path, fault, db, now) ==
    IF pdf_path \notin Files
    THEN [chatbot |-> bot, DB |-> db, clock |-> now, raised |-> "SystemExit"]
    ELSE
      LET dir == persist_directory(now)
          docs == ChunksOf(pdf_path)
          stored == [db EXCEPT ![dir] = @ \cup docs]
          indexed == [bot EXCEPT !.vectorstore = dir]
      IN  IF docs = {} \/ fault = "ingest"
          THEN [chatbot |-> bot, DB |-> db, clock |-> now + 1, raised |-> "SystemExit"]
          ELSE IF fault = "chain"
          THEN [chatbot |-> indexed, DB |-> stored, clock |-> now + 1,
                raised |-> "SystemExit"]
          ELSE [chatbot |-> [indexed EXCEPT !.qa_chain = dir], DB |-> stored,
                clock |-> now + 1, raised |-> "none"]

\* ------------------------------------------------------- process_query

Response(kind, cause, answer, info) ==
    [kind |-> kind, cause |-> cause, answer |-> answer, info |-> info]

\* except Exception as e: ... return "Bot: I apologize, ..."
except_Exception_Narrow(exc) ==
    IF exc = "AttributeError"
    THEN Response("raised", exc, "", EmptyDict)
    ELSE Response("apology", exc, "", EmptyDict)
except_Exception(exc) == Response("apology", exc, "", EmptyDict)

\* Lines 199-205: the history after the chain was called with `outcome`.
after_chain_Partial(conversation_history, query, outcome) ==
    IF outcome = ChainRaises
    THEN Append(conversation_history, <<query, "">>)
    ELSE Append(conversation_history, <<query, outcome>>)
after_chain(conversation_history, query, outcome) ==
    IF outcome = ChainRaises
    THEN conversation_history
    ELSE Append(conversation_history, <<query, outcome>>)

\* process_query up to its return or to the first input() of the intake.
\* route: which branch was taken; invoked: whether self.qa_chain(...) ran.
process_query(bot, query, outcome) ==
    IF Routed[query]
    THEN [chatbot |-> bot, route |-> "scheduling", invoked |-> FALSE,
          response |-> Response("pending", "", "", EmptyDict)]
    ELSE IF bot.qa_chain = 0
    THEN [chatbot |-> bot, route |-> "document", invoked |-> FALSE,
          response |-> except_Exception("AttributeError")]
    ELSE [chatbot |-> [bot EXCEPT !.conversation_history = after_chain(@, query, outcome)],
          route |-> "document", invoked |-> TRUE,
          response |-> IF outcome = ChainRaises
                       THEN except_Exception("ChainError")
                       ELSE Response("answer", "", outcome, EmptyDict)]

\* The record of one chain invocation: the n-th of the run, whether it is the first
\* since the last load_document, what was passed in, the chunks its retriever can
\* reach, and what came back.
ChainCall(last, bot, query, outcome, db, load) ==
    [n |-> last.n + 1, question |-> query, chat_history |-> bot.conversation_history,
     chunks |-> db[bot.qa_chain], file |-> load.file, first |-> ~load.asked,
     answer |-> outcome]

NoChainCall ==
    [n |-> 0, question |-> <<>>, chat_history |-> <<>>, chunks |-> {}, file |-> "None",
     first |-> FALSE, answer |-> ""]

\* The part of the state a script run or an API call works on.
World ==
    [chatbot |-> chatbot, messages |-> messages, document_loaded |-> document_loaded,
     current_file |-> current_file, DB |-> DB, clock |-> clock,
     lastLoad |-> lastLoad, reported |-> reported, raised |-> "none",
     intake |-> intake, response |-> response, lastChain |-> lastChain, calls |-> calls,
     lastCall |-> lastCall]

\* The record of a load_document call: the file, whether the call returned,
\* whether the chain was invoked since, and the session as it was when the call began.
LoadRecord(file, r, session) ==
    [attempted |-> TRUE, file |-> file, returned |-> r.raised = "none", asked |-> FALSE,
     at_call |-> session]

NoLoad ==
    [attempted |-> FALSE, file |-> None, returned |-> FALSE, asked |-> FALSE,
     at_call |-> [chatbot |-> NoChatbot, messages |-> <<>>, document_loaded |-> FALSE]]

\* One process_query call on the chatbot of w, with its bookkeeping.
ask(w, query, outcome) ==
    LET r == process_query(w.chatbot, query, outcome)
        call == [query |-> query, route |-> r.route]
    IN  IF r.route = "scheduling"
        THEN [w EXCEPT !.intake = "CollectName", !.calls = @ + 1, !.lastCall = call]
        ELSE [w EXCEPT
                !.chatbot = r.chatbot,
                !.calls = @ + 1,
                !.lastCall = call,
                !.response = r.response,
                !.lastChain = IF r.invoked
                              THEN ChainCall(@, w.chatbot, query, outcome, w.DB, w.lastLoad)
                              ELSE @,
                !.lastLoad.asked = @ \/ r.invoked]

\* ------------------------------------------------------------- app.py

\* Lines 33-37: a new chatbot, no messages, nothing loaded, the new file name.
reset_session_KeepChatbot(bot, name_of_file) ==
    [chatbot |-> IF bot.made THEN bot ELSE DocumentChatbot, messages |-> <<>>,
     document_loaded |-> FALSE]
reset_session(bot, name_of_file) ==
    [chatbot |-> DocumentChatbot, messages |-> <<>>, document_loaded |-> FALSE]

\* Lines 39-45: document_loaded after load_document returned or raised.
loaded_after_try_Always(flag, raised) == TRUE
loaded_after_try(flag, raised) == IF raised = "none" THEN TRUE ELSE flag

\* Lines 43-45: `except Exception` does not catch SystemExit.
shown_after_try(raised) ==
    IF raised = "none" THEN "st.success"
    ELSE IF raised = "Exception" THEN "st.error"
    ELSE "none"

\* Lines 25-48.  embeddings_ok: whether DocumentChatbot() could build its
\* embeddings; if not, the constructor exits at line 34, after the temporary
\* file was written and before anything else was reset.
upload_section(w, file, embeddings_ok, fault) ==
    IF file = None \/ w.current_file = file
    THEN w
    ELSE IF ~embeddings_ok
    THEN [w EXCEPT !.raised = "SystemExit"]
    ELSE
      LET s == reset_session(w.chatbot, file)
          r == load_document(s.chatbot, file, fault, w.DB, w.clock)
      IN  [w EXCEPT
             !.chatbot = r.chatbot,
             !.messages = s.messages,
             !.document_loaded = loaded_after_try(s.document_loaded, r.raised),
             !.current_file = file,
             !.DB = r.DB,
             !.clock = r.clock,
             !.lastLoad = LoadRecord(file, r, s),
             !.reported = shown_after_try(r.raised),
             !.raised = IF r.raised = "Exception" THEN "none" ELSE r.raised]

\* Lines 51-73.  prompt is <<>> when the chat input returned nothing.
chat_section(w, prompt, outcome) ==
    IF ~w.document_loaded \/ prompt = <<>>
    THEN w
    ELSE
      LET asked == [w EXCEPT !.messages = Append(@, [role |-> "user", content |-> prompt])]
          a == ask(asked, prompt, outcome)
      IN  IF a.intake \in Collecting
          THEN a
          ELSE [a EXCEPT !.messages =
                  Append(@, [role |-> "assistant", content |-> a.response])]

\* One run of the script, top to bottom; SystemExit ends it where it is raised.
script(file, prompt, embeddings_ok, fault, outcome) ==
    LET u == upload_section(World, file, embeddings_ok, fault)
    IN  IF u.raised = "SystemExit" THEN u ELSE chat_section(u, prompt, outcome)

Commit(w) ==
    /\ chatbot' = w.chatbot
    /\ messages' = w.messages
    /\ document_loaded' = w.document_loaded
    /\ current_file' = w.current_file
    /\ DB' = w.DB
    /\ clock' = w.clock
    /\ lastLoad' = w.lastLoad
    /\ reported' = w.reported
    /\ intake' = w.intake
    /\ response' = w.response
    /\ lastChain' = w.lastChain
    /\ calls' = w.calls
    /\ lastCall' = w.lastCall

Idle == process = "running" /\ intake \notin Collecting

\* A script run ends the process when SystemExit is raised on the main
\* thread; raised on a script thread, it ends only that run.
Run(file, prompt, embeddings_ok, fault, outcome, survives) ==
    LET w == script(file, prompt, embeddings_ok, fault, outcome)
    IN  /\ w.clock <= MaxLoads + 1
        /\ w.calls <= MaxPrompts
        /\ Commit(w)
        /\ uploaded_file' = file
        /\ process' = IF w.raised = "SystemExit" /\ ~survives THEN "exited" ELSE "running"
        /\ UNCHANGED <<host, name, email, phone, lastInput>>

\* The user puts a file into the uploader.
UploadFile ==
    /\ Idle
    /\ \E file \in Files :
          IF file = current_file
          THEN Run(file, <<>>, TRUE, "none", ChainRaises, TRUE)
          ELSE \E env \in UploadEnvs :
                  Run(file, <<>>, env[1], env[2], ChainRaises, env[3])

\* The user removes the file from the uploader.
RemoveFile ==
    /\ Idle
    /\ uploaded_file # None
    /\ Run(None, <<>>, TRUE, "none", ChainRaises, TRUE)

\* The user submits a prompt; the chat input exists only while a document
\* is loaded.
SubmitPrompt ==
    /\ Idle
    /\ document_loaded
    /\ \E prompt \in Prompts, outcome \in ChainOutcomes :
          IF uploaded_file \in {None, current_file}
          THEN Run(uploaded_file, prompt, TRUE, "none", outcome, TRUE)
          ELSE \E env \in UploadEnvs :
                  Run(uploaded_file, prompt, env[1], env[2], outcome, env[3])

\* ------------------------------------------------ collect_user_info

\* Lines 166-171
user_record_NoDate(n, e, p, date) == [name |-> n, email |-> e, phone |-> p]
user_record(n, e, p, date) ==
    [name |-> n, email |-> e, phone |-> p, appointment_date |-> date]

\* self.user_info = {...}
store_user_info_AsTurn(bot, info) ==
    [bot EXCEPT !.user_info = info,
                !.conversation_history = Append(@, <<info.name, "scheduled">>)]
store_user_info(bot, info) == [bot EXCEPT !.user_info = info]

\* Lines 194-196: the reply of process_query to what collect_user_info returned
\* (EmptyDict stands for None; both are falsy).
scheduling_reply(info) ==
    IF DOMAIN info # {}
    THEN Response("thanks", "", "", info)
    ELSE Response("sorry", "EOFError", "", EmptyDict)

Read(text) == [eof |-> FALSE, text |-> text]

\* process_query returns `reply`; the script appends it to the messages.
Return(reply) ==
    /\ response' = reply
    /\ messages' = IF host = "app"
                   THEN Append(messages, [role |-> "assistant", content |-> reply])
                   ELSE messages
    /\ name' = <<>>
    /\ email' = <<>>
    /\ phone' = <<>>

InputName ==
    /\ process = "running"
    /\ intake = "CollectName"
    /\ \E n \in Names :
          /\ name' = n
          /\ lastInput' = Read(n)
    /\ intake' = "CollectEmail"
    /\ UNCHANGED <<host, process, chatbot, DB, clock, email, phone, uploaded_file,
                   document_loaded, messages, current_file, response, lastChain,
                   calls, lastCall, lastLoad, reported>>

InputEmail ==
    /\ process = "running"
    /\ intake = "CollectEmail"
    /\ \E e \in EmailInputs :
          /\ lastInput' = Read(e)
          /\ IF validate_email(e)
             THEN email' = e /\ intake' = "CollectPhone"
             ELSE UNCHANGED <<email, intake>>
    /\ UNCHANGED <<host, process, chatbot, DB, clock, name, phone, uploaded_file,
                   document_loaded, messages, current_file, response, lastChain,
                   calls, lastCall, lastLoad, reported>>

InputPhone ==
    /\ process = "running"
    /\ intake = "CollectPhone"
    /\ \E p \in PhoneInputs :
          /\ lastInput' = Read(p)
          /\ IF validate_phone(p)
             THEN phone' = p /\ intake' = "CollectDate"
             ELSE UNCHANGED <<phone, intake>>
    /\ UNCHANGED <<host, process, chatbot, DB, clock, name, email, uploaded_file,
                   document_loaded, messages, current_file, response, lastChain,
                   calls, lastCall, lastLoad, reported>>

InputDate ==
    /\ process = "running"
    /\ intake = "CollectDate"
    /\ \E d \in DateInputs :
          LET date == parse_date(d)
              bot == store_user_info(chatbot, user_record(name, email, phone, date))
          IN  /\ lastInput' = Read(d)
              /\ IF date # <<>>
                 THEN /\ chatbot' = bot
                      /\ intake' = "Complete"
                      /\ Return(scheduling_reply(bot.user_info))
                 ELSE UNCHANGED <<chatbot, intake, response, messages, name, email, phone>>
    /\ UNCHANGED <<host, process, DB, clock, uploaded_file, document_loaded,
                   current_file, lastChain, calls, lastCall, lastLoad, reported>>

\* input() raises EOFError: collect_user_info catches it and returns None.
InputEOF ==
    /\ process = "running"
    /\ intake \in Collecting
    /\ lastInput' = [eof |-> TRUE, text |-> <<>>]
    /\ intake' = "Failed"
    /\ Return(scheduling_reply(EmptyDict))
    /\ UNCHANGED <<host, process, chatbot, DB, clock, uploaded_file, document_loaded,
                   current_file, lastChain, calls, lastCall, lastLoad, reported>>

Input == InputName \/ InputEmail \/ InputPhone \/ InputDate \/ InputEOF

\* ------------------------------------------------- the class on its own

\* chatbot.load_document(pdf_path) called by any host; SystemExit ends it.
ApiLoad ==
    /\ Idle
    /\ clock <= MaxLoads
    /\ \E pdf_path \in Paths, fault \in LoadFaults :
          LET r == load_document(chatbot, pdf_path, fault, DB, clock)
          IN  /\ chatbot' = r.chatbot
              /\ DB' = r.DB
              /\ clock' = r.clock
              /\ lastLoad' = LoadRecord(pdf_path, r,
                                [chatbot |-> chatbot, messages |-> messages,
                                 document_loaded |-> document_loaded])
              /\ process' = IF r.raised = "SystemExit" THEN "exited" ELSE "running"
    /\ UNCHANGED <<host, intake, name, email, phone, lastInput, uploaded_file,
                   document_loaded, messages, current_file, response, lastChain,
                   calls, lastCall, reported>>

\* chatbot.process_query(query) called by any host.
ApiQuery ==
    /\ Idle
    /\ calls < MaxCalls
    /\ \E query \in Queries, outcome \in ChainOutcomes :
          Commit(ask(World, query, outcome))
    /\ UNCHANGED <<host, process, name, email, phone, lastInput, uploaded_file>>

\* ------------------------------------------------------- specifications

InitCommon ==
    /\ process = "running"
    /\ DB = [d \in 1..(MaxLoads + 1) |-> {}]
    /\ clock = 1
    /\ intake = "Start"
    /\ name = <<>>
    /\ email = <<>>
    /\ phone = <<>>
    /\ lastInput = [eof |-> FALSE, text |-> <<>>]
    /\ uploaded_file = None
    /\ document_loaded = FALSE
    /\ messages = <<>>
    /\ current_file = None
    /\ response = Response("none", "", "", EmptyDict)
    /\ lastChain = NoChainCall
    /\ calls = 0
    /\ lastCall = [query |-> <<>>, route |-> "none"]
    /\ lastLoad = NoLoad
    /\ reported = "none"

\* The Streamlit session before the first upload (app.py lines 7-17).
Init == host = "app" /\ chatbot = NoChatbot /\ InitCommon

Next == UploadFile \/ RemoveFile \/ SubmitPrompt \/ Input

Spec == Init /\ [][Next]_vars

\* A chatbot just constructed, driven through its two public methods.
ApiInit == host = "api" /\ chatbot = DocumentChatbot /\ InitCommon

ApiNext == ApiLoad \/ ApiQuery \/ Input

ApiSpec == ApiInit /\ [][ApiNext]_vars

\* The intake flow on its own: a chatbot with no document, asked again and
\* again, under the hypothesis that the user does not withhold a valid input
\* for ever.
ValidInput == Input /\ intake' \notin {intake, "Failed"}

IntakeNext == ApiQuery \/ Input

IntakeSpec == ApiInit /\ [][IntakeNext]_vars /\ WF_vars(ValidInput)

\* ---------------------------------------------------------------- claims

history == chatbot.conversation_history

\* C1: conversation_history gains exactly the (query, answer) turn of every
\* document question the chain answered, appended after the turns already
\* there, and is left as it was by every other step (a failed chain call, a
\* call without a chain, a scheduling call).
C1_OneTurnPerAnsweredCall ==
    [][ IF lastChain'.n # lastChain.n /\ lastChain'.answer # ChainRaises
        THEN chatbot'.conversation_history
                = Append(history, <<lastChain'.question, lastChain'.answer>>)
        ELSE chatbot'.conversation_history = history ]_vars

\* Three chain calls, one of which failed: two turns, in call order.
C1_Witness ==
    /\ lastChain.n = 3
    /\ Len(history) = 2
    /\ history[1][1] = QDocument
    /\ history[2][1] = QNearMiss

\* C2: a load_document call that fails leaves the process running and has
\* its error reported to the caller (the upload handler's st.error).
C2_LoadFailureIsReported ==
    (lastLoad.attempted /\ ~lastLoad.returned)
        => (process = "running" /\ reported = "st.error")

Readable == {"answer", "apology", "sorry", "thanks"}

\* C3: every process_query call that has returned gave back a readable
\* response and left the session ready for the next call, whether or not a
\* document is loaded and whether or not the chain failed.
C3_QueryAlwaysAnswers ==
    [][ ((calls' # calls /\ intake' \notin Collecting)
            \/ (intake \in Collecting /\ intake' \notin Collecting))
        => /\ response'.kind \in Readable
           /\ process' = "running"
           /\ intake' \notin Collecting ]_vars

\* Three document questions: one before any load (no chain was invoked for
\* it), one the chain failed on (the history it was next given is empty),
\* and then one answered.
C3_Witness ==
    /\ calls = 3
    /\ intake = "Start"
    /\ lastChain.n = 2
    /\ lastChain.chat_history = <<>>
    /\ response.kind = "answer"
    /\ process = "running"

\* The trigger substrings, and a case-insensitive search for them that does
\* not go through lower().
Triggers ==
    { <<"c","a","l","l"," ","m","e">>,
      <<"c","o","n","t","a","c","t"," ","m","e">>,
      <<"s","c","h","e","d","u","l","e">>,
      <<"a","p","p","o","i","n","t","m","e","n","t">> }
SameLetter(a, b) ==
    a = b \/ \E k \in DOMAIN Uppercase : Uppercase[k] = a /\ Lowercase[k] = b
HasTrigger(q) ==
    \E t \in Triggers : \E i \in 1..(Len(q) - Len(t) + 1) :
        \A j \in 1..Len(t) : SameLetter(q[i + j - 1], t[j])
Triggered == [q \in Queries |-> HasTrigger(q)]

\* C4: a process_query call enters the intake flow if and only if its query,
\* case ignored, contains a trigger; every other query takes the document
\* branch, whatever the state of the session.
C4_RoutingByTrigger ==
    [][ calls' # calls
        => /\ lastCall'.route = IF Triggered[lastCall'.query] THEN "scheduling" ELSE "document"
           /\ (intake' = "CollectName") <=> Triggered[lastCall'.query] ]_vars

\* A mixed-case trigger sent a query to the intake of a chatbot that has a
\* document loaded and a turn in its history.
C4_Witness ==
    /\ lastCall.query = QCallMe
    /\ intake = "CollectName"
    /\ chatbot.qa_chain # 0
    /\ history # <<>>

\* C5: the retriever of a loaded chatbot reaches exactly the chunks of the
\* document loaded last, and every chain invocation ran over exactly the
\* chunks of the document that was loaded at the time.
C5_IndexHoldsOneDocument ==
    /\ lastChain.n > 0 => lastChain.chunks = ChunksOf(lastChain.file)
    /\ document_loaded
        => /\ chatbot.qa_chain = chatbot.vectorstore
           /\ DB[chatbot.vectorstore] = ChunksOf(current_file)

\* A question answered on b.pdf while a.pdf's chunks are still on disk.
C5_Witness ==
    /\ lastChain.file = "b.pdf"
    /\ lastChain.answer # ChainRaises
    /\ lastChain.chunks = ChunksOf("b.pdf")
    /\ \E d \in DOMAIN DB : DB[d] = ChunksOf("a.pdf")

IsIsoDate(d) ==
    /\ Len(d) = 10
    /\ d[5] = "-"
    /\ d[8] = "-"
    /\ \A i \in {1, 2, 3, 4, 6, 7, 9, 10} : d[i] \in Range(Digits)

Complete(info) ==
    /\ DOMAIN info = {"name", "email", "phone", "appointment_date"}
    /\ validate_email(info.email)
    /\ validate_phone(info.phone)
    /\ IsIsoDate(info.appointment_date)

\* C6: self.user_info is empty or a record of all four fields whose email,
\* phone and date passed validation, and what the intake handed back to
\* process_query is such a record or nothing.
C6_RecordCompleteOrAbsent ==
    /\ DOMAIN chatbot.user_info = {} \/ Complete(chatbot.user_info)
    /\ DOMAIN response.info = {} \/ Complete(response.info)
    /\ response.kind = "thanks" => response.info = chatbot.user_info
    /\ response.kind = "sorry" => DOMAIN response.info = {}

C6_Witness ==
    /\ response.kind = "thanks"
    /\ Complete(chatbot.user_info)
    /\ intake = "Complete"

\* C7: the first chain invocation after a load_document is given an empty
\* chat_history, and between a load and the first question on it the
\* chatbot's history is empty.
C7_LoadResetsHistory ==
    /\ lastChain.first => lastChain.chat_history = <<>>
    /\ (lastLoad.attempted /\ ~lastLoad.asked) => history = <<>>

\* b.pdf was loaded after a question had been put to another document, and
\* its own first question has now been answered.
C7_Witness ==
    /\ lastLoad.file = "b.pdf"
    /\ lastChain.file = "b.pdf"
    /\ lastChain.n = 2
    /\ lastChain.first
    /\ Len(history) = 1
    /\ Len(messages) = 2

\* C8: no step of a call routed to scheduling, from its start to its end,
\* changes vectorstore, qa_chain, conversation_history or the index on disk,
\* or invokes the chain.
C8_SchedulingLeavesRetrievalAlone ==
    [][ (intake \in Collecting \/ intake' \in Collecting)
        => /\ chatbot'.vectorstore = chatbot.vectorstore
           /\ chatbot'.qa_chain = chatbot.qa_chain
           /\ chatbot'.conversation_history = history
           /\ DB' = DB
           /\ lastChain' = lastChain ]_vars

\* An intake completed on a chatbot with a document loaded and a turn made.
C8_Witness ==
    /\ intake = "Complete"
    /\ response.kind = "thanks"
    /\ chatbot.qa_chain # 0
    /\ history # <<>>

\* The inputs each validator is to accept, as the field rules describe them.
GoodEmails == {EmailSpecValid}
GoodPhones == {PhoneMobile}
GoodDates == {DateMarch}

Before(state) ==
    CASE state = "CollectName" -> {"Start", "Complete", "Failed"}
      [] state = "CollectEmail" -> {"CollectName"}
      [] state = "CollectPhone" -> {"CollectEmail"}
      [] state = "CollectDate" -> {"CollectPhone"}
      [] state = "Complete" -> {"CollectDate"}
      [] OTHER -> Collecting

\* What a collection state does with the text just read.
Collects(state, good, next) ==
    (intake = state /\ ~lastInput'.eof)
        => IF lastInput'.text \in good
           THEN intake' = next
           ELSE intake' = state /\ response' = response /\ process' = "running"

\* C9: the intake states are entered only in the order CollectName,
\* CollectEmail, CollectPhone, CollectDate, Complete; any name is accepted;
\* each later state stays on an input its validator rejects and advances on
\* one it accepts; and a flow that is not starved of valid input ends
\* (Complete, or Failed when input itself ended).
C9_IntakeSequence ==
    /\ [][ /\ intake' # intake => intake \in Before(intake')
           /\ (intake = "CollectName" /\ ~lastInput'.eof)
                => (intake' = "CollectEmail" /\ name' = lastInput'.text)
           /\ Collects("CollectEmail", GoodEmails, "CollectPhone")
           /\ Collects("CollectPhone", GoodPhones, "CollectDate")
           /\ Collects("CollectDate", GoodDates, "Complete") ]_vars
    /\ (intake \in Collecting) ~> (intake \in {"Complete", "Failed"})

\* The second intake of a session completed, the empty name accepted as given.
C9_Witness ==
    /\ intake = "Complete"
    /\ calls = 2
    /\ lastCall.route = "scheduling"
    /\ lastInput.text = DateMarch
    /\ chatbot.user_info.name = <<>>

\* C10: document_loaded holds only after a load_document call that returned
\* on the current chatbot, which then has its index and chain; process_query
\* is called only while document_loaded holds; and load_document is called
\* only on a new chatbot, with no messages, document_loaded false and
\* current_file changed to the uploaded name.
C10_SessionFlags ==
    [][ /\ calls' # calls => document_loaded'
        /\ document_loaded'
             => /\ lastLoad'.returned
                /\ chatbot'.made
                /\ chatbot'.vectorstore # 0
                /\ chatbot'.qa_chain = chatbot'.vectorstore
        /\ clock' # clock
             => /\ lastLoad'.at_call
                    = [chatbot |-> DocumentChatbot, messages |-> <<>>,
                       document_loaded |-> FALSE]
                /\ current_file' = lastLoad'.file
                /\ current_file' # current_file ]_vars

\* A second document failed to load in a session that had answered a
\* question on the first; the session goes on, with nothing loaded.
C10_Witness ==
    /\ lastLoad.attempted
    /\ ~lastLoad.returned
    /\ lastChain.n > 0
    /\ ~document_loaded
    /\ messages = <<>>
    /\ process = "running"

====
